---- MODULE Spec2Model ----
(***************************************************************************)
(* Model of generate_treemap.py: the aggregate tree built from             *)
(* variable-depth hierarchy records (build_tree), its flattening to leaf   *)
(* descriptors (flatten_original_tree_to_df), the single-descendant        *)
(* analysis and the structural path rewrite done in main, and the          *)
(* percentage shown in each leaf's display text.                           *)
(*                                                                         *)
(* Values are modelled as integers (ticket counts); the 1e-6 tolerance of  *)
(* the root verification is then plain inequality.                         *)
(***************************************************************************)
EXTENDS Integers, Sequences, FiniteSets, TLC

\* ------------------------------------------------------------------ bounds
\* Number of entries of HIERARCHY_COLS ('Level 1' .. 'Level 4').
Depth == 4

\* Largest number of aggregated records (rows of df_agg) of an input.
MaxRecords == 3

\* Largest number of records of an input whose row orderings are compared.
MaxOrderRecords == 2

\* Largest number of records of an input that may break the
\* contiguous-suffix rule.
MaxGapRecords == 2

\* Largest number of records of an input that lacks a hierarchy column.
MaxMissingRecords == 2

\* Category names that occur in the hierarchy columns, in string order.
NameOrder == <<"A", "B">>

Names == {NameOrder[i] : i \in DOMAIN NameOrder}

\* The value of the i-th row of an input frame: positive, as
\* clean_value_column leaves them, and chosen so that every set of rows has
\* a sum of its own (1, 2, 4, ...).
RowValue(i) == 2 ^ (i - 1)

\* The empty cell: '' after fillna('') of the aggregated frame.
Empty == ""

\* None, as written into the level columns of df_plot past a path's end.
None == "<None>"

Cells == Names \cup {Empty}

\* The hierarchy columns, by position in HIERARCHY_COLS.
HIERARCHY_COLS == [i \in 1..Depth |-> i]

\* ----------------------------------------------------------------- helpers
RECURSIVE SumSeq(_)
SumSeq(s) == IF s = <<>> THEN 0 ELSE Head(s) + SumSeq(Tail(s))

RECURSIVE SumSet(_, _)
\* Sum of f[x] over the finite set S.
SumSet(f, S) ==
    IF S = {} THEN 0
    ELSE LET x == CHOOSE y \in S : TRUE
         IN  f[x] + SumSet(f, S \ {x})

RECURSIVE Concat(_)
\* Concatenation of a sequence of sequences.
Concat(ss) == IF ss = <<>> THEN <<>> ELSE Head(ss) \o Concat(Tail(ss))

Last(s) == s[Len(s)]

Prefix(s, k) == SubSeq(s, 1, k)

IsPrefix(p, s) == Len(p) <= Len(s) /\ Prefix(s, Len(p)) = p

\* ------------------------------------------------------------------ inputs
\* A hierarchy tuple obeys the contiguous-suffix rule: once a level is
\* empty, every deeper level is empty.
Contiguous(h) == \A i \in 1..(Depth - 1) : h[i] = Empty => h[i + 1] = Empty

AllHierarchies == [1..Depth -> Cells]

ValidHierarchies == {h \in AllHierarchies : Contiguous(h)}

\* Sort key of a cell in df.groupby(cols, dropna=False): names in string
\* order, the missing value last.
CellRank(c) ==
    IF c = Empty THEN Len(NameOrder) + 1
    ELSE CHOOSE i \in DOMAIN NameOrder : NameOrder[i] = c

\* h1 comes before h2 in the sorted group keys.
HierarchyBefore(h1, h2) ==
    \E i \in 1..Depth :
        /\ \A j \in 1..(i - 1) : h1[j] = h2[j]
        /\ CellRank(h1[i]) < CellRank(h2[i])

RECURSIVE SortedKeys(_)
\* The group keys of H in the order groupby lists them.
SortedKeys(H) ==
    IF H = {} THEN <<>>
    ELSE LET x == CHOOSE y \in H : \A z \in H \ {y} : HierarchyBefore(y, z)
         IN  <<x>> \o SortedKeys(H \ {x})

ValidHierarchySeq == SortedKeys(ValidHierarchies)

\* Every hierarchy tuple the cleaning can leave, contiguous or not.
AllHierarchySeq == SortedKeys(AllHierarchies)

\* The sets of columns of a source that lacks a configured hierarchy column
\* while a deeper one is there.
MissingColumnSets ==
    {S \in SUBSET (1..Depth) : \E c \in (1..Depth) \ S : \E d \in S : d > c}

\* The contiguous-suffix rule along the columns the source has.
ContiguousAlong(h, columns) ==
    \A c \in columns : \A d \in columns : (c < d /\ h[c] = Empty) => h[d] = Empty

\* The group keys of a source with these columns; a column the source lacks
\* holds no cell.
HierarchiesOver(columns) ==
    {h \in AllHierarchies :
        /\ \A c \in (1..Depth) \ columns : h[c] = Empty
        /\ ContiguousAlong(h, columns)}

\* The ways to pick n distinct entries of a list of length m, in list order.
Picks(n, m) == {idx \in [1..n -> 1..m] : \A i \in 1..(n - 1) : idx[i] < idx[i + 1]}

\* An aggregated frame (line 328): one row per distinct hierarchy tuple, in
\* the sorted order of the group keys, each with a positive value.
Frame(hseq, idx) == [i \in DOMAIN idx |-> [h |-> hseq[idx[i]], v |-> RowValue(i)]]

\* The non-empty leading segments of a row, up to its first empty level.
RECURSIVE PathOfFrom(_, _)
PathOfFrom(h, i) ==
    IF i > Depth \/ h[i] = Empty THEN <<>>
    ELSE <<h[i]>> \o PathOfFrom(h, i + 1)

PathOf(h) == PathOfFrom(h, 1)

\* -------------------------------------------------------------- build_tree
RootNode ==
    [name |-> "Root", children |-> <<>>, value |-> 0,
     original_path |-> <<"Root">>, is_leaf |-> FALSE]

NewNode(node_name, full_original_path) ==
    [name |-> node_name, children |-> <<>>, value |-> 0,
     original_path |-> full_original_path, is_leaf |-> FALSE]

EmptyTree == (<<>> :> RootNode)

\* Paths of the children of node p, in the insertion order of its dict.
ChildPaths(t, p) == [i \in 1..Len(t[p].children) |-> Append(p, t[p].children[i])]

HasChild(t, p, node_name) == \E i \in 1..Len(t[p].children) : t[p].children[i] = node_name

\* True when every level of cols[from..] of the row is empty.
RestEmpty(h, cols, from) == \A j \in from..Len(cols) : h[cols[j]] = Empty

\* node['value'] += row[value_col]; node['is_leaf'] = True
AddContribution(t, p, v) ==
    [t EXCEPT ![p].value = @ + v, ![p].is_leaf = TRUE]

\* A variant that re-creates the child on every visit, dropping the
\* subtree and the value already stored under it.
EnsureChildOverwrite(t, cur, node_name, full_original_path) ==
    LET child == Append(cur, node_name)
        kept  == {q \in DOMAIN t : ~IsPrefix(child, q)}
        base  == [q \in kept |-> t[q]]
        par   == IF HasChild(t, cur, node_name) THEN base
                 ELSE [base EXCEPT ![cur].children = Append(@, node_name)]
    IN  par @@ (child :> NewNode(node_name, full_original_path))

\* Lines 107-117: create the child on demand; an existing child only gets a
\* shorter original_path if one is found.
EnsureChild(t, cur, node_name, full_original_path) ==
    LET child == Append(cur, node_name)
    IN  IF ~HasChild(t, cur, node_name)
        THEN [t EXCEPT ![cur].children = Append(@, node_name)]
             @@ (child :> NewNode(node_name, full_original_path))
        ELSE IF Len(full_original_path) < Len(t[child].original_path)
             THEN [t EXCEPT ![child].original_path = full_original_path]
             ELSE t

RECURSIVE WalkRow(_, _, _, _, _, _)
\* The inner loop of build_tree (lines 88-132) from index i of cols, with
\* current_level at node cur and full_original_path as built so far.
WalkRow(t, row, cols, i, cur, full_original_path) ==
    IF i > Len(cols) THEN t
    ELSE LET node_name == row.h[cols[i]] IN
         IF node_name = Empty
         THEN IF RestEmpty(row.h, cols, i) /\ t[cur].name # "Root"
              THEN AddContribution(t, cur, row.v)
              ELSE t
         ELSE LET path1 == Append(full_original_path, node_name)
                  t1    == EnsureChild(t, cur, node_name, path1)
                  child == Append(cur, node_name)
              IN  IF RestEmpty(row.h, cols, i + 1)
                  THEN AddContribution(t1, child, row.v)
                  ELSE WalkRow(t1, row, cols, i + 1, child, path1)

\* One iteration of "for _, row in df.iterrows()".
InsertRowInto(t, row, cols) == WalkRow(t, row, cols, 1, <<>>, <<"Root">>)

RECURSIVE FinalValueChildrenOnly(_, _)
\* A variant that assigns the children's sum instead of adding it.
FinalValueChildrenOnly(t, p) ==
    IF t[p].children = <<>> THEN t[p].value
    ELSE LET kids == ChildPaths(t, p)
         IN  SumSeq([i \in 1..Len(kids) |-> FinalValueChildrenOnly(t, kids[i])])

RECURSIVE FinalValue(_, _)
\* The value update_parent_values_and_leaf_status returns for node p.
FinalValue(t, p) ==
    IF t[p].children = <<>> THEN t[p].value
    ELSE LET kids == ChildPaths(t, p)
         IN  t[p].value + SumSeq([i \in 1..Len(kids) |-> FinalValue(t, kids[i])])

\* A variant that keeps the flag set during insertion on inner nodes.
LeafStatusKept(t, p) == t[p].is_leaf \/ t[p].children = <<>>

\* The is_leaf flag update_parent_values_and_leaf_status leaves on node p.
LeafStatus(t, p) == t[p].children = <<>>

\* The whole post-order pass over the tree.
UpdateParentValuesAndLeafStatus(t) ==
    [p \in DOMAIN t |->
        [t[p] EXCEPT !.value = FinalValue(t, p), !.is_leaf = LeafStatus(t, p)]]

\* Lines 149-157: the root takes the recomputed total, 0 for a tree without
\* children, and the frame's sum when the two differ.
VerifyRoot(t, total_value) ==
    IF t[<<>>].children = <<>> THEN [t EXCEPT ![<<>>].value = 0]
    ELSE IF t[<<>>].value # total_value
         THEN [t EXCEPT ![<<>>].value = total_value]
         ELSE t

\* df[value_col].sum()
FrameSum(df) == SumSeq([i \in 1..Len(df) |-> df[i].v])

RECURSIVE InsertAll(_, _, _)
\* The insertion loop over the rows of a frame given as a sequence.
InsertAll(t, rows, cols) ==
    IF rows = <<>> THEN t
    ELSE InsertAll(InsertRowInto(t, Head(rows), cols), Tail(rows), cols)

\* build_tree on the rows in the given order.
BuildTree(rows, cols) ==
    VerifyRoot(UpdateParentValuesAndLeafStatus(InsertAll(EmptyTree, rows, cols)),
               FrameSum(rows))

\* ------------------------------------------- flatten_original_tree_to_df
\* A variant that names only the node itself.
JoinLastOnly(parts) == <<Last(parts)>>

\* " > ".join(parts): the joined string as its pieces, separators included.
RECURSIVE Join(_)
Join(parts) ==
    IF Len(parts) <= 1 THEN parts
    ELSE <<Head(parts), " > ">> \o Join(Tail(parts))

\* The row_data written for a leaf node (lines 189-198).
RowData(node, next_path, max_depth) ==
    [levels |-> [i \in 1..max_depth |->
                    IF i <= Len(next_path) THEN next_path[i] ELSE Empty],
     value_plot |-> node.value,
     original_path_str |-> Join(node.original_path),
     original_leaf_label |-> IF Len(node.original_path) > 1
                             THEN Last(node.original_path) ELSE node.name]

RECURSIVE FlattenNode(_, _, _, _)
\* The rows flatten_original_tree_to_df appends for node p and its subtree,
\* called with current_path.
FlattenNode(t, p, current_path, max_depth) ==
    LET node      == t[p]
        next_path == IF node.name # "Root" THEN Append(current_path, node.name)
                     ELSE current_path
        own       == IF node.is_leaf /\ node.value > 0
                     THEN <<RowData(node, next_path, max_depth)>> ELSE <<>>
        kids      == ChildPaths(t, p)
    IN  own \o Concat([i \in 1..Len(kids) |->
                          FlattenNode(t, kids[i], next_path, max_depth)])

FlattenOriginalTreeToDf(t) == FlattenNode(t, <<>>, <<>>, Depth)

\* --------------------------------------------- single-descendant analysis
\* The group keys of df.groupby(parent_cols) for the first k level columns.
GroupKeys(df, k) == {Prefix(df[i].levels, k) : i \in 1..Len(df)}

\* group[child_col].replace('', np.nan).dropna().unique()
UniqueChildren(df, key, k) ==
    {df[i].levels[k + 1] : i \in {j \in 1..Len(df) : Prefix(df[j].levels, k) = key}}
    \ {Empty}

\* A variant that records a step for every child of a group, however many
\* distinct children the group has.
IsSingleAnyCount(children) == Cardinality(children) >= 1

\* len(unique_children) == 1
IsSingle(children) == Cardinality(children) = 1

\* The single steps found at depth k (one pass of the loop of line 388).
SingleStepsAt(df, k) ==
    {kc \in GroupKeys(df, k) \X Names :
        /\ IsSingle(UniqueChildren(df, kc[1], k))
        /\ kc[2] \in UniqueChildren(df, kc[1], k)}

\* A variant whose loop stops one level short of the deepest column.
AnalysisDepthsShort == 0..(Depth - 2)

\* range(len(valid_hierarchy_cols_for_analysis))
AnalysisDepths == 0..(Depth - 1)

IdentifySingleSteps(df) == UNION {SingleStepsAt(df, k) : k \in AnalysisDepths}

\* ------------------------------------------------ structural path rewrite
\* Lines 436-441: the level cells of a row up to the first empty one.
OrigPathComponents(row) == PathOf(row.levels)

\* A variant that drops a single step also at the last position.
KeepNodeNoLast(is_single_step, is_last_element) == ~is_single_step

\* A variant that keeps only the last node of a path.
KeepNodeLastOnly(is_single_step, is_last_element) == is_last_element

\* Line 453: keep the node unless it is a single step that is not last.
KeepNode(is_single_step, is_last_element) == ~is_single_step \/ is_last_element

\* A variant that looks a step up under its immediate parent only.
ParentPathTupleLastOnly(comps, i) == IF i = 0 THEN <<>> ELSE <<comps[i]>>

\* Line 447: tuple(orig_path_components[:i])
ParentPathTuple(comps, i) == Prefix(comps, i)

RECURSIVE StructuralFrom(_, _, _)
\* The loop of lines 445-454 from (0-based) index i on.
StructuralFrom(comps, steps, i) ==
    IF i >= Len(comps) THEN <<>>
    ELSE LET current_node      == comps[i + 1]
             parent_path_tuple == ParentPathTuple(comps, i)
             is_single_step    == <<parent_path_tuple, current_node>> \in steps
             is_last_element   == (i = Len(comps) - 1)
         IN  (IF KeepNode(is_single_step, is_last_element)
              THEN <<current_node>> ELSE <<>>)
             \o StructuralFrom(comps, steps, i + 1)

\* A variant that collapses only the single steps right below the root.
NewStructuralPathBelowRootOnly(row, steps) ==
    StructuralFrom(OrigPathComponents(row), {st \in steps : st[1] = <<>>}, 0)

\* Lines 443-456: the structural path of one row.
NewStructuralPath(row, steps) == StructuralFrom(OrigPathComponents(row), steps, 0)

\* A variant that also rebuilds the path string from the structural path.
WithStructuralLevelsAndPathStr(row, path) ==
    [row EXCEPT !.levels = [i \in 1..Depth |->
                               IF i <= Len(path) THEN path[i] ELSE None],
                !.original_path_str = Join(<<"Root">> \o path)]

\* Lines 459-462: the level columns of df_plot take the structural paths.
WithStructuralLevels(row, path) ==
    [row EXCEPT !.levels = [i \in 1..Depth |->
                               IF i <= Len(path) THEN path[i] ELSE None]]

\* ------------------------------------------------------------ display text
\* n/d rounded to the nearest integer, ties to even ("{:.2f}" on a double).
RoundDiv(n, d) ==
    LET q == n \div d
        r == n % d
    IN  IF 2 * r < d THEN q
        ELSE IF 2 * r > d THEN q + 1
        ELSE IF q % 2 = 0 THEN q ELSE q + 1

\* format_percentage, in hundredths of a percent ("12.34%" is 1234).
FormatPercentage(value, total) ==
    IF total = 0 THEN 0 ELSE RoundDiv(value * 100 * 100, total)

\* format_value: "{:,.0f}" of an integer count is the count.
FormatValue(value) == value

\* generate_display_text_from_data
GenerateDisplayTextFromData(original_leaf_label, value, total) ==
    [label |-> original_leaf_label,
     value_formatted |-> FormatValue(value),
     percentage_formatted |-> FormatPercentage(value, total)]

\* Lines 466-471: the total of the flattened leaf values, 0 when not positive.
PlotTotal(df) ==
    LET s == SumSeq([i \in 1..Len(df) |-> df[i].value_plot])
    IN  IF s <= 0 THEN 0 ELSE s

\* ------------------------------------------------------------ the program
VARIABLES
    df_agg,            \* the aggregated frame handed to build_tree
    todo,              \* number of rows of df_agg the insertion loop has done
    tree,              \* hierarchy_tree
    df_flat_orig,      \* the flattened original leaves
    single_steps,      \* the set of (parent path, child name) pairs
    structural_paths,  \* one structural path per row of df_plot
    df_plot,           \* the rows handed to the renderer
    total_value,       \* the total the percentages refer to
    df_columns,        \* the hierarchy columns found in df_raw.columns
    pc                 \* position of main

vars == <<df_agg, todo, tree, df_flat_orig, single_steps, structural_paths,
          df_plot, total_value, df_columns, pc>>

\* A variant that stops listing columns at the first missing one.
CurrentHierarchyColsUntilMissing(columns) ==
    SubSeq(HIERARCHY_COLS, 1,
           IF \A c \in 1..Depth : c \in columns THEN Depth
           ELSE (CHOOSE c \in 1..Depth :
                    c \notin columns /\ \A b \in 1..(c - 1) : b \in columns) - 1)

\* Line 280: [col for col in HIERARCHY_COLS if col in df_raw.columns]
CurrentHierarchyCols(columns) ==
    LET Present(c) == c \in columns IN SelectSeq(HIERARCHY_COLS, Present)

current_hierarchy_cols == CurrentHierarchyCols(df_columns)

\* The state at the call of build_tree, for a source with the given
\* hierarchy columns and a frame of at most max_rows rows over the
\* hierarchies listed in hseq.
InitWith(columns, hseq, max_rows) ==
    /\ df_columns = columns
    /\ \E n \in 0..max_rows :
          \E idx \in Picks(n, Len(hseq)) : df_agg = Frame(hseq, idx)
    /\ todo = 0
    /\ tree = EmptyTree
    /\ df_flat_orig = <<>>
    /\ single_steps = {}
    /\ structural_paths = <<>>
    /\ df_plot = <<>>
    /\ total_value = 0
    /\ pc = "build"

\* Inputs that obey the input contract, all configured columns present.
Init == InitWith(1..Depth, ValidHierarchySeq, MaxRecords)

InitOrder == InitWith(1..Depth, ValidHierarchySeq, MaxOrderRecords)

\* Inputs whose rows may have a present segment after an absent one.
InitGap == InitWith(1..Depth, AllHierarchySeq, MaxGapRecords)

\* Inputs from a source that lacks a hierarchy column.
InitMissing ==
    \E columns \in MissingColumnSets :
        LET hseq == SortedKeys(HierarchiesOver(columns))
        IN  InitWith(columns, hseq, MaxMissingRecords)

\* Lines 309-311 and 334-336: no row is left after cleaning and aggregation.
AbortEmptyDataset ==
    /\ pc = "build"
    /\ df_agg = <<>>
    /\ pc' = "aborted"
    /\ UNCHANGED <<df_agg, todo, tree, df_flat_orig, single_steps,
                   structural_paths, df_plot, total_value, df_columns>>

\* One iteration of the insertion loop of build_tree.
InsertRow ==
    /\ pc = "build"
    /\ todo < Len(df_agg)
    /\ tree' = InsertRowInto(tree, df_agg[todo + 1], current_hierarchy_cols)
    /\ todo' = todo + 1
    /\ UNCHANGED <<df_agg, df_flat_orig, single_steps, structural_paths,
                   df_plot, total_value, df_columns, pc>>

\* The rest of build_tree: the post-order pass and the root verification.
FinishBuildTree ==
    /\ pc = "build"
    /\ df_agg # <<>>
    /\ todo = Len(df_agg)
    /\ tree' = VerifyRoot(UpdateParentValuesAndLeafStatus(tree), FrameSum(df_agg))
    /\ pc' = "flatten"
    /\ UNCHANGED <<df_agg, todo, df_flat_orig, single_steps, structural_paths,
                   df_plot, total_value, df_columns>>

\* Lines 369-375: flatten the tree; an empty result ends the run.
Flatten ==
    /\ pc = "flatten"
    /\ df_flat_orig' = FlattenOriginalTreeToDf(tree)
    /\ pc' = IF df_flat_orig' = <<>> THEN "aborted" ELSE "analyze"
    /\ UNCHANGED <<df_agg, todo, tree, single_steps, structural_paths,
                   df_plot, total_value, df_columns>>

\* Lines 384-416.
Analyze ==
    /\ pc = "analyze"
    /\ single_steps' = IdentifySingleSteps(df_flat_orig)
    /\ pc' = "rewrite"
    /\ UNCHANGED <<df_agg, todo, tree, df_flat_orig, structural_paths,
                   df_plot, total_value, df_columns>>

\* Lines 431-462.
Rewrite ==
    /\ pc = "rewrite"
    /\ structural_paths' =
          [i \in 1..Len(df_flat_orig) |->
              NewStructuralPath(df_flat_orig[i], single_steps)]
    /\ df_plot' =
          [i \in 1..Len(df_flat_orig) |->
              WithStructuralLevels(df_flat_orig[i], structural_paths'[i])]
    /\ pc' = "display"
    /\ UNCHANGED <<df_agg, todo, tree, df_flat_orig, single_steps, total_value,
                   df_columns>>

\* Lines 466-476.
Display ==
    /\ pc = "display"
    /\ total_value' = PlotTotal(df_flat_orig)
    /\ df_plot' =
          [i \in 1..Len(df_plot) |->
              [levels |-> df_plot[i].levels,
               value_plot |-> df_plot[i].value_plot,
               original_path_str |-> df_plot[i].original_path_str,
               original_leaf_label |-> df_plot[i].original_leaf_label,
               display_text |->
                   GenerateDisplayTextFromData(df_plot[i].original_leaf_label,
                                               df_plot[i].value_plot,
                                               total_value')]]
    /\ pc' = "render"
    /\ UNCHANGED <<df_agg, todo, tree, df_flat_orig, single_steps,
                   structural_paths, df_columns>>

Next ==
    \/ AbortEmptyDataset
    \/ InsertRow
    \/ FinishBuildTree
    \/ Flatten
    \/ Analyze
    \/ Rewrite
    \/ Display

Spec == Init /\ [][Next]_vars

\* The same program on the inputs whose row orderings are compared.
SpecOrder == InitOrder /\ [][Next]_vars

\* The same program on inputs that may break the contiguous-suffix rule.
SpecGap == InitGap /\ [][Next]_vars

\* The same program on sources that lack a hierarchy column.
SpecMissing == InitMissing /\ [][Next]_vars

\* ------------------------------------------------------ stages of the run
\* No later step changes what an earlier one wrote, so each stage is
\* examined where it has just ended.

\* build_tree has just returned.
TreeBuilt == pc = "flatten"

\* flatten_original_tree_to_df has just returned.
Flattened == df_agg # <<>> /\ pc \in {"analyze", "aborted"}

\* The single-descendant analysis has just ended.
Analyzed == pc = "rewrite"

\* The structural paths have just been built.
Rewritten == pc = "display"

\* The rows of the frame, as (path, value) records.
RecordPath(row) == PathOf(row.h)

\* The original path of a flattened leaf.
LeafPath(i) == PathOf(df_flat_orig[i].levels)

LeafPaths == {LeafPath(i) : i \in 1..Len(df_flat_orig)}

\* The orderings of the rows of a frame.
Orderings(df) ==
    {[i \in 1..Len(df) |-> df[f[i]]] :
        f \in {g \in [1..Len(df) -> 1..Len(df)] :
                  \A a, b \in 1..Len(df) : a # b => g[a] # g[b]}}

\* What two trees are compared on: the node set, and each node's value and
\* is_leaf flag.
TreeView(t) == [p \in DOMAIN t |-> [value |-> t[p].value, is_leaf |-> t[p].is_leaf]]

\* ------------------------------------------------------------------ claims
\* C1 (leaf conservation, as claimed): once the tree is built and
\* flattened, the values of the flattened leaves add up to root.value.
C1_LeafConservation ==
    Flattened =>
        SumSeq([i \in 1..Len(df_flat_orig) |-> df_flat_orig[i].value_plot])
            = tree[<<>>].value

\* C2 (sum invariant, as claimed): once build_tree has returned, root.value
\* is the sum of the values of all input records, empty paths included.
C2_SumInvariant == TreeBuilt => tree[<<>>].value = FrameSum(df_agg)

\* C3 (order independence): every ordering of the rows of the frame gives
\* build_tree the same node set with the same value and is_leaf flag on
\* every node, and gives the analysis the same single-step set.
C3_OrderIndependence ==
    /\ TreeBuilt =>
          \A rows \in Orderings(df_agg) :
              TreeView(BuildTree(rows, current_hierarchy_cols)) = TreeView(tree)
    /\ Analyzed =>
          \A rows \in Orderings(df_agg) :
              IdentifySingleSteps(FlattenOriginalTreeToDf(
                  BuildTree(rows, current_hierarchy_cols))) = single_steps

\* C3 witness: the analysis has ended on a frame of two or more rows of
\* which another row order builds the children in another order, and a
\* single step exists.
C3_Witness ==
    /\ Analyzed
    /\ Len(df_agg) >= 2
    /\ single_steps # {}
    /\ \E rows \in Orderings(df_agg) :
          BuildTree(rows, current_hierarchy_cols) # tree

\* C4 (leaf preservation): the structural path of every flattened leaf is
\* non-empty, no longer than the leaf's original path, and ends with the
\* original path's last element.
C4_LeafPreservation ==
    Rewritten =>
        /\ Len(structural_paths) = Len(df_flat_orig)
        /\ \A i \in 1..Len(df_flat_orig) :
              /\ structural_paths[i] # <<>>
              /\ Len(structural_paths[i]) <= Len(LeafPath(i))
              /\ Last(structural_paths[i]) = Last(LeafPath(i))

\* C4 witness: a leaf whose last link is a single step and whose structural
\* path is shorter than its original path.
C4_Witness ==
    /\ Rewritten
    /\ \E i \in 1..Len(df_flat_orig) :
          /\ Len(structural_paths[i]) < Len(LeafPath(i))
          /\ <<Prefix(LeafPath(i), Len(LeafPath(i)) - 1), Last(LeafPath(i))>>
                \in single_steps

\* The positions of P the rewriter's contract keeps.
KeptPositions(P) ==
    {i \in 1..Len(P) : <<Prefix(P, i - 1), P[i]>> \notin single_steps \/ i = Len(P)}

\* S lists the elements of P at exactly the positions of K, in order.
IsSelection(S, P, K) ==
    /\ Len(S) = Cardinality(K)
    /\ \E f \in [1..Len(S) -> K] :
          /\ \A a, b \in 1..Len(S) : a < b => f[a] < f[b]
          /\ \A a \in 1..Len(S) : S[a] = P[f[a]]

\* C5 (rewriter contract): the structural path of a leaf with original path
\* P is the subsequence of P that keeps P[i] exactly when (P[0..i), P[i]) is
\* no single step or i is the last index.
C5_RewriterContract ==
    Rewritten =>
        \A i \in 1..Len(df_flat_orig) :
            IsSelection(structural_paths[i], LeafPath(i), KeptPositions(LeafPath(i)))

\* C5 witness: a leaf of which an inner link below depth 1 is dropped and
\* another inner link is kept.
C5_Witness ==
    /\ Rewritten
    /\ \E i \in 1..Len(df_flat_orig) :
          LET P == LeafPath(i)
          IN  /\ \E a \in 2..(Len(P) - 1) : a \notin KeptPositions(P)
              /\ \E a \in 1..(Len(P) - 1) : a \in KeptPositions(P)

\* C6 (no false positives): for every recorded single step (parent, child),
\* every flattened leaf that passes through parent has child as its next
\* segment.
C6_NoFalsePositives ==
    Analyzed =>
        \A step \in single_steps :
            \A L \in LeafPaths :
                (IsPrefix(step[1], L) /\ Len(L) > Len(step[1]))
                    => L[Len(step[1]) + 1] = step[2]

\* C6 witness: a single step below the root that two leaves pass through.
C6_Witness ==
    /\ Analyzed
    /\ \E step \in single_steps :
          /\ step[1] # <<>>
          /\ Cardinality({L \in LeafPaths :
                IsPrefix(step[1], L) /\ Len(L) > Len(step[1])}) >= 2

\* The parent paths of length k the leaves pass through.
ParentsAt(k) == {Prefix(L, k) : L \in {M \in LeafPaths : Len(M) >= k}}

\* The distinct segments at position k of the leaves that share parent P.
SegmentsAt(P, k) ==
    {L[k + 1] : L \in {M \in LeafPaths : IsPrefix(P, M) /\ Len(M) > k}}

\* C7 (no false negatives): at every depth k of 0..D-1, a parent path with
\* two or more distinct next segments has no single step, and a parent path
\* with exactly one has that single step.
C7_NoFalseNegatives ==
    Analyzed =>
        \A k \in 0..(Depth - 1) :
            \A P \in ParentsAt(k) :
                /\ Cardinality(SegmentsAt(P, k)) >= 2
                      => \A c \in Names : <<P, c>> \notin single_steps
                /\ Cardinality(SegmentsAt(P, k)) = 1
                      => \A c \in SegmentsAt(P, k) : <<P, c>> \in single_steps

\* C7 witness: one parent with two distinct children, and a parent at the
\* deepest level with exactly one.
C7_Witness ==
    /\ Analyzed
    /\ \E k \in 0..(Depth - 1) :
          \E P \in ParentsAt(k) : Cardinality(SegmentsAt(P, k)) >= 2
    /\ \E P \in ParentsAt(Depth - 1) : Cardinality(SegmentsAt(P, Depth - 1)) = 1

\* The nodes one level below p.
ChildNodes(p) == {q \in DOMAIN tree : Len(q) = Len(p) + 1 /\ IsPrefix(p, q)}

\* C8 (leaf classification): after the post-order pass a node is a leaf
\* exactly when it has no children.
C8_LeafClassification ==
    TreeBuilt =>
        \A p \in DOMAIN tree :
            /\ tree[p].is_leaf <=> ChildNodes(p) = {}
            /\ ChildNodes(p) = {ChildPaths(tree, p)[i] : i \in 1..Len(tree[p].children)}

\* A record ends exactly at node p.
HasDirectValue(p) == \E i \in 1..Len(df_agg) : RecordPath(df_agg[i]) = p

\* C8 witness: a node that received a direct value and has a child.
C8_Witness ==
    /\ TreeBuilt
    /\ \E p \in DOMAIN tree \ {<<>>} : HasDirectValue(p) /\ ChildNodes(p) # {}

\* The sum of the values of the records whose path satisfies Q.
RecordSum(Q(_)) ==
    SumSeq([i \in 1..Len(df_agg) |->
               IF Q(RecordPath(df_agg[i])) THEN df_agg[i].v ELSE 0])

\* C9 (node aggregate value): the value of every non-root node is its
\* directly attributed value plus its children's values, which is the sum
\* of the records whose path extends the node's path, each counted once.
C9_NodeAggregateValue ==
    TreeBuilt =>
        \A p \in DOMAIN tree \ {<<>>} :
            LET EndsAt(path) == path = p
                Extends(path) == IsPrefix(p, path)
            IN  /\ tree[p].value = RecordSum(Extends)
                /\ tree[p].value =
                      RecordSum(EndsAt)
                      + SumSet([q \in ChildNodes(p) |-> tree[q].value], ChildNodes(p))

\* C9 witness: a node with a direct value and a child of another value.
C9_Witness ==
    /\ TreeBuilt
    /\ \E p \in DOMAIN tree \ {<<>>} :
          /\ HasDirectValue(p)
          /\ \E q \in ChildNodes(p) : tree[q].value > 0 /\ tree[p].value > tree[q].value

\* C10 (percentage correctness, as claimed): the percentage in a leaf's
\* display text is the leaf value as a percentage of the sum of all input
\* record values, rounded to two decimals, and 0.00 when that sum is 0.
C10_PercentageOfDatasetTotal ==
    pc = "render" =>
        \A i \in 1..Len(df_plot) :
            df_plot[i].display_text.percentage_formatted =
                IF FrameSum(df_agg) > 0
                THEN RoundDiv(df_plot[i].value_plot * 100 * 100, FrameSum(df_agg))
                ELSE 0

\* C11 (scenario B): a frame of one record with a path of two segments
\* (a, x) records both ((), a) and ((a), x) as single steps, gives the leaf
\* the structural path (x) alone, and keeps the full path a > x in the
\* leaf's original path string, before and after the rewrite.
C11_ScenarioB ==
    (Rewritten /\ Len(df_agg) = 1 /\ Len(RecordPath(df_agg[1])) = 2) =>
        LET a == RecordPath(df_agg[1])[1]
            x == RecordPath(df_agg[1])[2]
        IN  /\ <<<<>>, a>> \in single_steps
            /\ <<<<a>>, x>> \in single_steps
            /\ structural_paths = <<(<<x>>)>>
            /\ Len(df_plot) = 1
            /\ df_plot[1].levels[1] = x
            /\ df_flat_orig[1].original_path_str = <<"Root", " > ", a, " > ", x>>
            /\ df_plot[1].original_path_str = <<"Root", " > ", a, " > ", x>>

\* C11 witness: the rewrite has ended on the single record (A, B).
C11_Witness ==
    /\ Rewritten
    /\ Len(df_agg) = 1
    /\ RecordPath(df_agg[1]) = <<"A", "B">>
    /\ structural_paths = <<(<<"B">>)>>

\* The row with its path cut at the first absent segment.
Truncated(row) ==
    [row EXCEPT !.h = [i \in 1..Depth |->
                          IF i <= Len(PathOf(row.h)) THEN row.h[i] ELSE Empty]]

\* C12 (defensive truncation, as claimed): build_tree treats every row as
\* the row cut at its first absent segment: the tree of a frame is the tree
\* of its truncated rows, node for node and value for value.
C12_DefensiveTruncation ==
    TreeBuilt =>
        TreeView(tree) =
            TreeView(BuildTree([i \in 1..Len(df_agg) |-> Truncated(df_agg[i])],
                               current_hierarchy_cols))

\* The node paths of the tree of a frame whose records have these paths.
PathsOfRecords(P(_)) ==
    {<<>>} \cup UNION {{Prefix(P(df_agg[i]), k) : k \in 0..Len(P(df_agg[i]))} :
                          i \in 1..Len(df_agg)}

\* The cells of a hierarchy tuple in the columns the source has, in the
\* configured order, up to the first absent one.
PresentPath(h) ==
    LET Present(c) == c \in df_columns
        cols == SelectSeq(HIERARCHY_COLS, Present)
        cells == [j \in 1..Len(cols) |-> h[cols[j]]]
        Stop == {j \in 1..Len(cols) : cells[j] = Empty}
    IN  IF Stop = {} THEN cells
        ELSE Prefix(cells, (CHOOSE j \in Stop : \A k \in Stop : j <= k) - 1)

PresentRecordPath(row) == PresentPath(row.h)

Recomputed ==
    UpdateParentValuesAndLeafStatus(InsertAll(EmptyTree, df_agg, current_hierarchy_cols))

\* C14 (InconsistentAggregate fallback, as claimed): when the root total the
\* post-order pass recomputes differs from the sum of the record values, the
\* root gets the sum of the record values and every other node stays as the
\* pass left it.
C14_InconsistentAggregateFallback ==
    (TreeBuilt /\ Recomputed[<<>>].value # FrameSum(df_agg)) =>
        /\ tree[<<>>].value = FrameSum(df_agg)
        /\ DOMAIN tree = DOMAIN Recomputed
        /\ \A p \in DOMAIN tree \ {<<>>} : tree[p] = Recomputed[p]
        /\ tree[<<>>].children = Recomputed[<<>>].children
        /\ tree[<<>>].is_leaf = Recomputed[<<>>].is_leaf

\* C15 (EmptyDataset, as claimed): the run aborts exactly when no record
\* remains after cleaning: a run without records never gets past the start
\* of the build, and a run with a record never aborts.
C15_EmptyDataset ==
    /\ df_agg = <<>> => pc \in {"build", "aborted"}
    /\ pc = "aborted" => df_agg = <<>>

\* C16 (identity preservation): the structural rewrite leaves the flattened
\* original leaves as they are and gives df_plot the same leaves in the same
\* order, each with its value, its original path string (the original path
\* from the root joined with " > ") and its label (its original last
\* segment); only the level columns change.
C16_IdentityPreservation ==
    [][pc = "rewrite" =>
          /\ df_flat_orig' = df_flat_orig
          /\ Len(df_plot') = Len(df_flat_orig)
          /\ \A i \in 1..Len(df_flat_orig) :
                /\ df_plot'[i].value_plot = df_flat_orig[i].value_plot
                /\ df_plot'[i].original_path_str = df_flat_orig[i].original_path_str
                /\ df_plot'[i].original_path_str = Join(<<"Root">> \o LeafPath(i))
                /\ df_plot'[i].original_leaf_label = df_flat_orig[i].original_leaf_label
                /\ df_plot'[i].original_leaf_label = Last(LeafPath(i))
                /\ DOMAIN df_plot'[i] = DOMAIN df_flat_orig[i]]_vars

\* Two or more leaves after the rewrite, one of them with level columns that
\* differ from its original ones by a dropped link.
C16_Witness ==
    /\ Rewritten
    /\ Len(df_plot) >= 2
    /\ \E i \in 1..Len(df_plot) :
          /\ structural_paths[i] # LeafPath(i)
          /\ df_plot[i].levels[1] # df_flat_orig[i].levels[1]
          /\ df_plot[i].original_path_str = df_flat_orig[i].original_path_str

\* C17 (structural paths stay unambiguous): no two flattened leaves get the
\* same structural path, and no leaf's structural path is a prefix of
\* another leaf's.
C17_StructuralPathsUnambiguous ==
    Rewritten =>
        \A i \in 1..Len(structural_paths) : \A j \in 1..Len(structural_paths) :
            i # j => ~IsPrefix(structural_paths[i], structural_paths[j])

\* Two leaves with the same last segment in different branches, both with a
\* dropped link.
C17_Witness ==
    /\ Rewritten
    /\ \E i \in 1..Len(structural_paths) : \E j \in 1..Len(structural_paths) :
          /\ i # j
          /\ Last(LeafPath(i)) = Last(LeafPath(j))
          /\ Len(structural_paths[i]) < Len(LeafPath(i))
          /\ Len(structural_paths[j]) < Len(LeafPath(j))

\* The leaf table whose level columns hold the structural paths.
StructuralTable ==
    [i \in 1..Len(structural_paths) |->
        [levels |-> [k \in 1..Depth |->
                        IF k <= Len(structural_paths[i])
                        THEN structural_paths[i][k] ELSE Empty]]]

\* The structural paths of a second pass over the structural paths.
SecondPass ==
    LET table == StructuralTable
        steps == IdentifySingleSteps(table)
    IN  [i \in 1..Len(table) |-> NewStructuralPath(table[i], steps)]

\* The segments that follow prefix P among the structural paths.
StructuralChildren(P) ==
    {structural_paths[j][Len(P) + 1] :
        j \in {m \in 1..Len(structural_paths) :
                  Len(structural_paths[m]) > Len(P) /\ IsPrefix(P, structural_paths[m])}}

\* C18 (collapsing is complete in one pass): analysing and rewriting the
\* structural paths a second time returns the same structural paths, and
\* every link of a structural path that is not its last one belongs to a
\* parent with at least two distinct children.
C18_Idempotence ==
    Rewritten =>
        /\ SecondPass = structural_paths
        /\ \A i \in 1..Len(structural_paths) :
              \A k \in 1..(Len(structural_paths[i]) - 1) :
                  Cardinality(StructuralChildren(Prefix(structural_paths[i], k - 1))) >= 2

\* Two or more leaves, one of which lost two links or more and still has a
\* link before its last one.
C18_Witness ==
    /\ Rewritten
    /\ \E i \in 1..Len(structural_paths) :
          /\ Len(structural_paths[i]) + 2 <= Len(LeafPath(i))
          /\ Len(structural_paths[i]) >= 2

====
